---- MODULE Spec2Model ----
(***************************************************************************)
(* The EVM execution adapter of the Hardhat network provider: the          *)
(* interpreted adapter (EthereumJSAdapter) and the native adapter          *)
(* (RethnetAdapter), both implementing the VMAdapter interface.            *)
(*                                                                         *)
(* The world state is a map from addresses to accounts.  A state root is   *)
(* a collision-free digest of the world state, so a root is represented by *)
(* the world state it identifies.                                          *)
(***************************************************************************)
EXTENDS Integers, Sequences, FiniteSets, TLC

VARIABLES
    impl,                 \* which VMAdapter implementation was created
    forked,               \* whether the node configuration is a forked one
    state,                \* working world state of the state manager
    journal,              \* RethnetStateManager: stack of open savepoints
    blockStartStateRoot,  \* EthereumJSAdapter._blockStartStateRoot (<<>> = undefined)
    vmCommon,             \* EthereumJSAdapter: (this._vm as any)._common
    vmDebugTracer,        \* _vmDebugTracer ("none" = undefined)
    pc,                   \* position of the call in flight
    call,                 \* locals of the call in flight
    depth,                \* call depth of the backend's stepper
    lastCall,             \* the last finished call, as its caller observed it
    openedAt,             \* root observed before the startBlock that opened the open block
    cycle,                \* progress of a startBlock; runTxInBlock*; addBlockRewards?; revertBlock run
    rewardsArg,           \* argument of the addBlockRewards call whose effect is measured
    blockArg,             \* arguments of the call whose block environment is measured
    snapshot,             \* the root a caller holds from makeSnapshot (<<>> = none)
    eventArg,             \* the event whose handler run is measured
    handled,              \* what that handler run did and built
    storeCall,            \* what setBlockContext called the state manager with
    blockEnv,             \* block environment that call handed to the backend
    probe                 \* what the backend issued and the subscribers received

vars == <<impl, forked, state, journal, blockStartStateRoot, vmCommon,
          vmDebugTracer, pc, call, depth,
          lastCall, openedAt, cycle, rewardsArg, blockArg, snapshot, eventArg,
          handled, storeCall, blockEnv,
          probe>>

(***************************************************************************)
(* Bounds of the model.                                                    *)
(***************************************************************************)
MaxBalance == 1
MaxJournal == 2
MaxDepth == 2
MaxRewards == 2
MaxEvents == 4

(***************************************************************************)
(* Configuration handed to create().                                       *)
(***************************************************************************)
ConfigChainId == 31337
ConfigNetworkId == 31338
ForkNetworkId == 1
ForkBlockNumber == 1
ConfigHardfork == "london"

Addr == {"a1", "a2"}
BlockNumbers == 0 .. 2
Tracers == {"t1", "t2"}

HardforkRank(h) ==
    CASE h = "berlin" -> 0
      [] h = "london" -> 1
      [] h = "merge" -> 2

hardforkGte(a, b) == HardforkRank(a) >= HardforkRank(b)

\* The injected selector: a pure function of the block number.
selectHardfork(n) ==
    CASE n = 0 -> "berlin"
      [] n = 1 -> "london"
      [] OTHER -> "merge"

(***************************************************************************)
(* World state and the state manager's account reads and writes.           *)
(***************************************************************************)
WorldState == [exists : SUBSET Addr, balance : [Addr -> 0 .. MaxBalance]]

\* getAccount returns an empty account for an address without one.
getAccount(s, a) == IF a \in s.exists THEN s.balance[a] ELSE 0

putAccount(s, a, b) ==
    [exists |-> s.exists \cup {a}, balance |-> [s.balance EXCEPT ![a] = b]]

\* A root that does not follow the working state.
staleStateRoot ==
    [exists |-> {"a1"}, balance |-> [a \in Addr |-> IF a = "a1" THEN 1 ELSE 0]]

getStateRoot == state

GenesisState ==
    [exists |-> {"a1"}, balance |-> [a \in Addr |-> IF a = "a1" THEN 1 ELSE 0]]

(***************************************************************************)
(* Transactions and the backend's execution of one.                        *)
(***************************************************************************)
Tx == {t \in [from : Addr, to : Addr, value : {1}] : t.from # t.to}

\* A header field that is not set.
Undefined == "undefined"

\* A numeric header field that is not set; a set one is written <<n>> (a base
\* fee) or <<q, r>> (a difficulty).
Absent == <<>>

\* Block contexts handed to dryRun and runTxInBlock.
Blocks ==
    [number : BlockNumbers, mixHash : {Undefined, "h1"},
     baseFeePerGas : {Absent}, difficulty : {Absent}]

\* The sender cannot pay: runTx rejects the transaction unless skipBalance.
CannotPay(s, tx) == getAccount(s, tx.from) < tx.value

\* State after a successful execution of tx (with skipBalance the sender is
\* debited what it has).
ExecTx(s, tx) ==
    LET fromBal == getAccount(s, tx.from)
        debited == putAccount(s, tx.from,
                              IF fromBal >= tx.value THEN fromBal - tx.value ELSE 0)
    IN  putAccount(debited, tx.to, getAccount(debited, tx.to) + tx.value)

Exits == {"Success", "Revert", "Halt"}

\* execResult.exceptionError as the backend reports it.
EvmErrors == {Undefined, "revert", "out of gas", "invalid opcode"}

\* A mapping that reports a revert as an exceptional halt.
fromEvmErrorRevertAsHalt(e) == IF e = Undefined THEN "Success" ELSE "Halt"

\* Exit.fromEthereumJSEvmError: the exit of the RunTxResult.
fromEthereumJSEvmError(e) ==
    CASE e = Undefined -> "Success"
      [] e = "revert" -> "Revert"
      [] OTHER -> "Halt"

\* rethnetResultToRunTxResult: the exit of the RunTxResult.
rethnetResultToRunTxResult(e) ==
    CASE e = Undefined -> "Success"
      [] e = "revert" -> "Revert"
      [] OTHER -> "Halt"

\* State the backend leaves after running tx to the given exit.
BackendState(s, tx, exit) == IF exit = "Success" THEN ExecTx(s, tx) ELSE s

NoCall ==
    [op |-> "none", tx |-> CHOOSE t \in Tx : TRUE, initialStateRoot |-> <<>>,
     originalCommon |-> <<>>, pre |-> <<>>]

Observed(op, outcome) == [op |-> op, outcome |-> outcome]

NoCycle == [phase |-> "none", root |-> <<>>, dirty |-> FALSE]

\* No record is kept of the events.
ProbeOff ==
    [on |-> FALSE, events |-> <<>>, tracerCalls |-> <<>>, backend |-> "none",
     result |-> <<>>]

\* The last two setDebugTracer / removeDebugTracer calls, the latest last.
lastTwo(calls, c) ==
    IF calls = <<>> THEN <<c>> ELSE <<calls[Len(calls)], c>>

\* A startBlock succeeded and no sealBlock or revertBlock has succeeded since.
blockOpen == openedAt # <<>>

\* The adapter as create() leaves it.
Constructed ==
    /\ impl \in {"ethereumjs", "rethnet"}
    /\ forked \in BOOLEAN
    /\ impl = "rethnet" => ~forked
    /\ state = GenesisState
    /\ journal = <<>>
    /\ blockStartStateRoot = <<>>
    /\ vmCommon = [chainId |-> ConfigChainId, networkId |-> ConfigNetworkId,
                   hardfork |-> ConfigHardfork]
    /\ vmDebugTracer = "none"
    /\ pc = "idle"
    /\ call = NoCall
    /\ depth = 0
    /\ lastCall = Observed("create", "ok")
    /\ openedAt = <<>>
    /\ cycle = NoCycle

Init ==
    /\ Constructed
    /\ rewardsArg = <<>>
    /\ blockArg = <<>>
    /\ snapshot = <<>>
    /\ eventArg = <<>>
    /\ handled = <<>>
    /\ storeCall = <<>>
    /\ blockEnv = <<>>
    /\ probe = ProbeOff

(***************************************************************************)
(* Block lifecycle.                                                        *)
(***************************************************************************)
config == <<impl, forked>>
drawn == <<rewardsArg, blockArg, snapshot, eventArg, handled, storeCall>>
measuring == <<blockEnv, probe>>
tracing == <<vmDebugTracer>>
inFlight == <<pc, call, depth>>

\* Number of block checkpoints the adapter holds open.
OpenCheckpoints ==
    IF impl = "ethereumjs"
    THEN (IF blockStartStateRoot # <<>> THEN 1 ELSE 0)
    ELSE Len(journal)

\* RethnetStateManager.checkpoint(): push a savepoint.
checkpoint(j, s) == Append(j, s)

\* RethnetStateManager.revert(): the state saved by the top savepoint.
revertedState(j) == j[Len(j)]

popSavepoint(j) == SubSeq(j, 1, Len(j) - 1)

StartBlock ==
    /\ pc = "idle"
    /\ IF impl = "ethereumjs"
       THEN /\ UNCHANGED journal
            /\ IF blockStartStateRoot # <<>>
               THEN /\ lastCall' = Observed("startBlock", "error")
                    /\ UNCHANGED <<blockStartStateRoot, openedAt>>
               ELSE /\ blockStartStateRoot' = <<getStateRoot>>
                    /\ lastCall' = Observed("startBlock", "ok")
                    /\ openedAt' = IF blockOpen THEN openedAt ELSE <<state>>
       ELSE /\ Len(journal) < MaxJournal
            /\ journal' = checkpoint(journal, state)
            /\ lastCall' = Observed("startBlock", "ok")
            /\ openedAt' = IF blockOpen THEN openedAt ELSE <<state>>
            /\ UNCHANGED blockStartStateRoot
    /\ cycle' = IF lastCall'.outcome = "ok"
                THEN [phase |-> "started", root |-> <<state>>, dirty |-> FALSE]
                ELSE NoCycle
    /\ UNCHANGED <<config, drawn, measuring, state, vmCommon, tracing, inFlight>>

SealBlock ==
    /\ pc = "idle"
    /\ IF impl = "ethereumjs"
       THEN IF blockStartStateRoot = <<>>
            THEN /\ lastCall' = Observed("sealBlock", "error")
                 /\ UNCHANGED <<blockStartStateRoot, openedAt>>
            ELSE /\ blockStartStateRoot' = <<>>
                 /\ lastCall' = Observed("sealBlock", "ok")
                 /\ openedAt' = <<>>
       ELSE /\ lastCall' = Observed("sealBlock", "ok")
            /\ openedAt' = <<>>
            /\ UNCHANGED blockStartStateRoot
    /\ cycle' = NoCycle
    /\ UNCHANGED <<config, drawn, measuring, state, journal, vmCommon, tracing,
                   inFlight>>

RevertBlock ==
    /\ pc = "idle"
    /\ IF impl = "ethereumjs"
       THEN /\ UNCHANGED journal
            /\ IF blockStartStateRoot = <<>>
               THEN /\ lastCall' = Observed("revertBlock", "error")
                    /\ UNCHANGED <<state, blockStartStateRoot, openedAt>>
               ELSE /\ state' = blockStartStateRoot[1]
                    /\ blockStartStateRoot' = <<>>
                    /\ lastCall' = Observed("revertBlock", "ok")
                    /\ openedAt' = <<>>
       ELSE /\ UNCHANGED blockStartStateRoot
            /\ IF journal = <<>>
               THEN /\ lastCall' = Observed("revertBlock", "error")
                    /\ UNCHANGED <<state, journal, openedAt>>
               ELSE /\ state' = revertedState(journal)
                    /\ journal' = popSavepoint(journal)
                    /\ lastCall' = Observed("revertBlock", "ok")
                    /\ openedAt' = <<>>
    /\ cycle' = IF lastCall'.outcome = "ok" /\ cycle.phase \in {"started", "rewarded"}
                THEN [phase |-> "reverted", root |-> cycle.root,
                      dirty |-> state # cycle.root[1]]
                ELSE NoCycle
    /\ UNCHANGED <<config, drawn, measuring, vmCommon, tracing, inFlight>>

(***************************************************************************)
(* Block rewards.                                                          *)
(***************************************************************************)
RewardValues == {0, 1}

RewardLists == UNION {[1 .. n -> Addr \X RewardValues] : n \in 0 .. MaxRewards}

\* A loop iteration that stores the reward instead of adding it.
creditRewardOverwriting(s, address, reward) == putAccount(s, address, reward)

\* One iteration of the loop of EthereumJSAdapter.addBlockRewards.
creditReward(s, address, reward) ==
    putAccount(s, address, getAccount(s, address) + reward)

RECURSIVE ethereumjsRewards(_, _)
ethereumjsRewards(s, rewards) ==
    IF rewards = <<>>
    THEN s
    ELSE ethereumjsRewards(creditReward(s, rewards[1][1], rewards[1][2]),
                           Tail(rewards))

\* BlockBuilder.finalize(rewards) of the native backend.
RECURSIVE finalize(_, _)
finalize(s, rewards) ==
    IF rewards = <<>>
    THEN s
    ELSE LET a == rewards[1][1]
         IN  finalize([exists |-> s.exists \cup {a},
                       balance |-> [s.balance EXCEPT ![a] = @ + rewards[1][2]]],
                      Tail(rewards))

WithinBalance(s) == \A a \in Addr : s.balance[a] <= MaxBalance

\* The reward lists of at most n entries that keep every balance of s within
\* MaxBalance (credits only grow a balance, so a list is within the bound
\* exactly when each of its prefixes is).
RECURSIVE AffordableRewards(_, _)
AffordableRewards(s, n) ==
    IF n = 0
    THEN {<<>>}
    ELSE {<<>>} \cup
         UNION {{<<e>> \o rest : rest \in AffordableRewards(putAccount(s, e[1], getAccount(s, e[1]) + e[2]), n - 1)} :
                e \in {x \in Addr \X RewardValues : getAccount(s, x[1]) + x[2] <= MaxBalance}}

\* addBlockRewards(rewards) as the adapter performs it.
AddBlockRewardsOf(rewards) ==
    /\ pc = "idle"
    /\ state' = IF impl = "ethereumjs"
                THEN ethereumjsRewards(state, rewards)
                ELSE finalize(state, rewards)
    /\ lastCall' = Observed("addBlockRewards", "ok")
    /\ cycle' = IF cycle.phase = "started"
                THEN [cycle EXCEPT !.phase = "rewarded"]
                ELSE NoCycle
    /\ UNCHANGED <<config, drawn, measuring, journal, blockStartStateRoot, vmCommon, tracing,
                   inFlight, openedAt>>

AddBlockRewards ==
    /\ pc = "idle"
    /\ \E rewards \in AffordableRewards(state, MaxRewards) :
          AddBlockRewardsOf(rewards)

\* A failing addBlockRewards that gives the block up.
AddBlockRewardsThrowClosingBlock ==
    /\ pc = "idle"
    /\ state' = state
    /\ blockStartStateRoot' = <<>>
    /\ lastCall' = Observed("addBlockRewards", "error")
    /\ cycle' = NoCycle
    /\ UNCHANGED <<config, drawn, measuring, journal, vmCommon, tracing,
                   inFlight, openedAt>>

\* addBlockRewards raises (the state manager or the block builder fails)
\* before its first reward or after it: a reward credited before the failure
\* stays written.
AddBlockRewardsThrow ==
    /\ pc = "idle"
    /\ \E credited \in AffordableRewards(state, 1) :
          state' = IF impl = "ethereumjs"
                   THEN ethereumjsRewards(state, credited)
                   ELSE finalize(state, credited)
    /\ lastCall' = Observed("addBlockRewards", "error")
    /\ cycle' = IF cycle.phase = "started" THEN cycle ELSE NoCycle
    /\ UNCHANGED <<config, drawn, measuring, journal, blockStartStateRoot,
                   vmCommon, tracing, inFlight, openedAt>>

(***************************************************************************)
(* Tracing control.                                                        *)
(***************************************************************************)
\* setDebugTracer that keeps a tracer already attached.
SetDebugTracerKeepingFirst ==
    /\ pc = "idle"
    /\ \E t \in Tracers :
          /\ vmDebugTracer' = IF vmDebugTracer = "none" THEN t ELSE vmDebugTracer
          /\ probe' = IF ~probe.on
                      THEN ProbeOff
                      ELSE [probe EXCEPT !.tracerCalls = lastTwo(@, t)]
    /\ UNCHANGED <<config, drawn, blockEnv, state, journal, blockStartStateRoot,
                   vmCommon, inFlight, lastCall, openedAt, cycle>>

SetDebugTracer ==
    /\ pc = "idle"
    /\ \E t \in Tracers :
          /\ vmDebugTracer' = t
          /\ probe' = IF ~probe.on
                      THEN ProbeOff
                      ELSE [probe EXCEPT !.tracerCalls = lastTwo(@, t)]
    /\ UNCHANGED <<config, drawn, blockEnv, state, journal, blockStartStateRoot, vmCommon,
                   inFlight, lastCall, openedAt, cycle>>

RemoveDebugTracer ==
    /\ pc = "idle"
    /\ vmDebugTracer' = "none"
    /\ probe' = IF ~probe.on
                THEN ProbeOff
                ELSE [probe EXCEPT !.tracerCalls = lastTwo(@, "remove")]
    /\ UNCHANGED <<config, drawn, blockEnv, state, journal, blockStartStateRoot, vmCommon,
                   inFlight, lastCall, openedAt, cycle>>

(***************************************************************************)
(* The end of a call in flight: what the adapter does once the backend's   *)
(* run has settled.                                                        *)
(***************************************************************************)
\* dryRun without the restore of the state root in its finally block.
DryRunExitKeepingWrites(outcome, written) ==
    /\ IF impl = "ethereumjs"
       THEN vmCommon' = IF call.originalCommon # <<>>
                        THEN call.originalCommon[1]
                        ELSE vmCommon
       ELSE UNCHANGED vmCommon
    /\ state' = written
    /\ lastCall' = Observed("dryRun", outcome)

\* dryRun restoring the chain configuration after the try block instead of
\* in a finally block.
DryRunExitRestoringOnReturn(outcome, written) ==
    /\ IF impl = "ethereumjs"
       THEN /\ vmCommon' = IF call.originalCommon # <<>> /\ outcome = "ok"
                           THEN call.originalCommon[1]
                           ELSE vmCommon
            /\ state' = call.initialStateRoot[1]
       ELSE /\ state' = written
            /\ UNCHANGED vmCommon
    /\ lastCall' = Observed("dryRun", outcome)

\* dryRun going back to the open block's start root instead of the root it
\* captured on entry.
DryRunExitToBlockStart(outcome, written) ==
    /\ IF impl = "ethereumjs"
       THEN /\ vmCommon' = IF call.originalCommon # <<>>
                           THEN call.originalCommon[1]
                           ELSE vmCommon
            /\ state' = IF blockStartStateRoot # <<>>
                        THEN blockStartStateRoot[1]
                        ELSE call.initialStateRoot[1]
       ELSE /\ state' = IF journal # <<>> THEN revertedState(journal) ELSE written
            /\ UNCHANGED vmCommon
    /\ lastCall' = Observed("dryRun", outcome)

\* The tail of dryRun: the result is returned or the error propagates.  The
\* interpreted adapter runs its finally block first; `written` is the state
\* the backend left.
DryRunExit(outcome, written) ==
    /\ IF impl = "ethereumjs"
       THEN /\ vmCommon' = IF call.originalCommon # <<>>
                           THEN call.originalCommon[1]
                           ELSE vmCommon
            /\ state' = call.initialStateRoot[1]
       ELSE /\ state' = written
            /\ UNCHANGED vmCommon
    /\ lastCall' = Observed("dryRun", outcome)

\* The tail of runTxInBlock.
RunTxInBlockExit(outcome, written) ==
    /\ state' = written
    /\ lastCall' = Observed("runTxInBlock", outcome)
    /\ UNCHANGED vmCommon

CallExit(outcome, written) ==
    /\ IF call.op = "dryRun"
       THEN DryRunExit(outcome, written)
       ELSE RunTxInBlockExit(outcome, written)
    /\ pc' = "idle"
    /\ call' = NoCall
    /\ depth' = 0
    /\ UNCHANGED <<config, drawn, blockEnv, journal, blockStartStateRoot,
                   vmDebugTracer, openedAt, cycle>>

(***************************************************************************)
(* Trace handlers.  The structural tracer (VMTracer, created with          *)
(* throwErrors = false) records a failure internally; the debug tracer may *)
(* throw.                                                                  *)
(***************************************************************************)
\* What can go wrong inside a handler: reading the callee's code (the
\* interpreted adapter's beforeMessage only) or the attached debug tracer.
HandlerFaults(kind) ==
    {"none"}
        \cup (IF impl = "ethereumjs" /\ kind = "beforeMessage" THEN {"code"} ELSE {})
        \cup (IF vmDebugTracer # "none" THEN {"debugTracer"} ELSE {})

\* A handler that calls the continuation before the debug tracer.
ethereumjsHandlerNextFirst(kind, fault) ==
    LET failedEarly == kind = "beforeMessage" /\ fault = "code"
        debugCalled == ~failedEarly /\ vmDebugTracer # "none"
        threw == debugCalled /\ fault = "debugTracer"
    IN  [codeRead |-> ~failedEarly,
         structural |-> ~failedEarly, debug |-> debugCalled,
         subscriberThrew |-> threw, nextCalls |-> 1,
         nextError |-> failedEarly, rejected |-> threw,
         order |-> (IF failedEarly THEN <<>> ELSE <<"structural">>)
                       \o <<"next">>
                       \o (IF debugCalled THEN <<"debug">> ELSE <<>>)]

\* A handler that hands the event to the debug tracer instead of the
\* structural tracer when one is attached.
ethereumjsHandlerEitherTracer(kind, fault) ==
    LET failedEarly == kind = "beforeMessage" /\ fault = "code"
        debugCalled == ~failedEarly /\ vmDebugTracer # "none"
        threw == debugCalled /\ fault = "debugTracer"
    IN  [codeRead |-> ~failedEarly,
         structural |-> ~failedEarly /\ ~debugCalled, debug |-> debugCalled,
         subscriberThrew |-> threw, nextCalls |-> 1,
         nextError |-> failedEarly \/ threw, rejected |-> FALSE,
         order |-> (IF debugCalled THEN <<"debug">> ELSE
                    IF failedEarly THEN <<>> ELSE <<"structural">>)
                       \o <<"next">>]

\* _beforeMessageHandler / _stepHandler / _afterMessageHandler of the
\* interpreted adapter: try { tracers; return next() } catch (e) { return next(e) }
\* `order` lists what the handler does, in the order it does it.
ethereumjsHandler(kind, fault) ==
    LET failedEarly == kind = "beforeMessage" /\ fault = "code"
        debugCalled == ~failedEarly /\ vmDebugTracer # "none"
        threw == debugCalled /\ fault = "debugTracer"
        \* next() of the try block raises: the catch block calls next(e)
        nextRaised == fault = "next"
    IN  [codeRead |-> ~failedEarly,
         structural |-> ~failedEarly, debug |-> debugCalled,
         subscriberThrew |-> threw,
         nextCalls |-> IF nextRaised THEN 2 ELSE 1,
         nextError |-> failedEarly \/ threw \/ nextRaised, rejected |-> FALSE,
         order |-> (IF failedEarly THEN <<>> ELSE <<"structural">>)
                       \o (IF debugCalled THEN <<"debug">> ELSE <<>>)
                       \o <<"next">>
                       \o (IF nextRaised THEN <<"next">> ELSE <<>>)]

\* The native adapter's handlers: no try/catch and no continuation.
rethnetHandler(kind, fault) ==
    LET debugCalled == vmDebugTracer # "none"
        threw == debugCalled /\ fault = "debugTracer"
    IN  [codeRead |-> TRUE,
         structural |-> TRUE, debug |-> debugCalled,
         subscriberThrew |-> threw, nextCalls |-> 0, nextError |-> FALSE,
         rejected |-> threw,
         order |-> <<"structural">>
                       \o (IF debugCalled THEN <<"debug">> ELSE <<>>)]

handler(kind, fault) ==
    IF impl = "ethereumjs"
    THEN ethereumjsHandler(kind, fault)
    ELSE rethnetHandler(kind, fault)

\* What the subscribers saw of one event: its number in the order of issue,
\* the depth of its message, who received it and what its handler did.
eventRecord(kind, messageDepth, h) ==
    [seq |-> Len(probe.events) + 1, kind |-> kind, depth |-> messageDepth,
     codeRead |-> h.codeRead, structural |-> h.structural,
     debug |-> IF h.debug THEN vmDebugTracer ELSE "none",
     threw |-> h.subscriberThrew, order |-> h.order]

\* The backend issues one event, which leaves its stepper at call depth
\* `newDepth`; when the handler reports a failure the stepper unwinds and the
\* run fails.
Deliver(kind, newDepth) ==
    /\ probe.on => Len(probe.events) < MaxEvents
    /\ \E fault \in HandlerFaults(kind) :
          LET h == handler(kind, fault)
              messageDepth == IF kind = "beforeMessage" THEN newDepth ELSE depth
          IN  IF h.nextError \/ h.rejected
              THEN /\ CallExit("error", state)
                   /\ probe' = IF ~probe.on
                               THEN ProbeOff
                               ELSE [probe EXCEPT
                                        !.events = Append(@, eventRecord(kind, messageDepth, h)),
                                        !.backend = "threw"]
              ELSE /\ pc' = IF newDepth = 0 THEN "traced" ELSE "running"
                   /\ depth' = newDepth
                   /\ probe' = IF ~probe.on
                               THEN ProbeOff
                               ELSE [probe EXCEPT
                                        !.events = Append(@, eventRecord(kind, messageDepth, h))]
                   /\ UNCHANGED <<config, drawn, blockEnv, state, journal,
                                  blockStartStateRoot, vmCommon, vmDebugTracer,
                                  call, lastCall, openedAt, cycle>>

EmitBeforeMessage ==
    /\ pc = "running"
    /\ depth < MaxDepth
    /\ Deliver("beforeMessage", depth + 1)

EmitStep ==
    /\ pc = "running"
    /\ depth > 0
    /\ Deliver("step", depth)

EmitAfterMessage ==
    /\ pc = "running"
    /\ depth > 0
    /\ Deliver("afterMessage", depth - 1)

(***************************************************************************)
(* The backend finishing a run.                                            *)
(***************************************************************************)
\* guaranteedDryRun of the native backend leaves the state alone; every
\* other run writes into the working state.
BackendWrites == impl = "ethereumjs" \/ call.op = "runTxInBlock"

\* The exit of the RunTxResult built from the backend's result.
resultExit(e) ==
    IF impl = "ethereumjs"
    THEN fromEthereumJSEvmError(e)
    ELSE rethnetResultToRunTxResult(e)

\* The backend returns its result and the RunTxResult is built from it.
BackendReturn ==
    /\ pc = "traced"
    /\ \E e \in EvmErrors :
          LET written == IF BackendWrites
                         THEN BackendState(state, call.tx, resultExit(e))
                         ELSE state
          IN  /\ WithinBalance(written)
              /\ CallExit("ok", written)
              /\ probe' = IF ~probe.on
                          THEN ProbeOff
                          ELSE [probe EXCEPT !.backend = e,
                                             !.result = <<resultExit(e)>>]

\* The backend itself fails (an infrastructure failure).
BackendThrow ==
    /\ pc \in {"running", "traced"}
    /\ CallExit("error", state)
    /\ probe' = IF ~probe.on
                THEN ProbeOff
                ELSE [probe EXCEPT !.backend = "threw"]

(***************************************************************************)
(* dryRun and runTxInBlock up to the backend's run.                        *)
(***************************************************************************)
\* A chain configuration that ignores the fork.
customCommonConfigured(number) ==
    [chainId |-> ConfigChainId,
     networkId |-> ConfigNetworkId,
     hardfork |-> selectHardfork(number)]

customCommon(number) ==
    [chainId |-> IF ~forked \/ number >= ForkBlockNumber
                 THEN ConfigChainId
                 ELSE ForkNetworkId,
     networkId |-> IF forked THEN ForkNetworkId ELSE ConfigNetworkId,
     hardfork |-> selectHardfork(number)]

\* EthereumJSAdapter._isEip1559Active for a block number.
isEip1559Active(number) == hardforkGte(selectHardfork(number), "london")

isPostMergeHardfork(number) == hardforkGte(selectHardfork(number), "merge")

\* RethnetAdapter._getBlockPrevRandao throws.
prevRandaoThrows(block) ==
    isPostMergeHardfork(block.number) /\ block.mixHash = Undefined

\* A prevRandao that is the mixHash before the Merge too.
getBlockPrevRandaoAlways(number, mixHash) == mixHash

\* RethnetAdapter._getBlockPrevRandao when it returns.
getBlockPrevRandao(number, mixHash) ==
    IF isPostMergeHardfork(number) THEN mixHash ELSE Undefined

\* Block difficulties are written <<q, r>> for q * Limb + r, 0 <= r < Limb.
Limb == 65536

MAX_DIFFICULTY == <<Limb - 1, Limb - 1>>

greaterThan(a, b) == a[1] > b[1] \/ (a[1] = b[1] /\ a[2] > b[2])

\* A difficulty passed on without the clamp.
getBlockEnvDifficultyUnclamped(difficulty) == difficulty

\* RethnetAdapter._getBlockEnvDifficulty.
getBlockEnvDifficulty(difficulty) ==
    IF difficulty # Absent /\ greaterThan(difficulty, MAX_DIFFICULTY)
    THEN MAX_DIFFICULTY
    ELSE difficulty

\* The block is rebuilt with a zero base fee before the interpreted dryRun.
rebuildsBlock(block, forceBaseFeeZero) ==
    isEip1559Active(block.number)
        /\ (block.baseFeePerGas = Absent \/ forceBaseFeeZero)

\* Block environment the interpreted adapter hands to vm.runTx in dryRun.
ethereumjsDryRunEnv(block, forceBaseFeeZero) ==
    [basefee |-> IF rebuildsBlock(block, forceBaseFeeZero)
                 THEN <<0>>
                 ELSE block.baseFeePerGas,
     difficulty |-> block.difficulty,
     prevrandao |-> block.mixHash]

\* Block environment the native adapter hands to guaranteedDryRun.
rethnetDryRunEnv(block, forceBaseFeeZero) ==
    [basefee |-> IF forceBaseFeeZero THEN <<0>> ELSE block.baseFeePerGas,
     difficulty |-> getBlockEnvDifficulty(block.difficulty),
     prevrandao |-> getBlockPrevRandao(block.number, block.mixHash)]

\* Block environment handed to the backend by runTxInBlock.
runTxInBlockEnv(block) ==
    IF impl = "ethereumjs"
    THEN [basefee |-> block.baseFeePerGas,
          difficulty |-> block.difficulty,
          prevrandao |-> block.mixHash]
    ELSE [basefee |-> block.baseFeePerGas,
          difficulty |-> getBlockEnvDifficulty(block.difficulty),
          prevrandao |-> getBlockPrevRandao(block.number, block.mixHash)]

\* A call begins: the record of the previous call's events is dropped.
ProbeReset ==
    IF ~probe.on
    THEN ProbeOff
    ELSE [probe EXCEPT !.events = <<>>, !.backend = "none", !.result = <<>>]

\* The backend is handed a block environment.
Handed(env) == IF blockArg = <<>> THEN blockEnv ELSE <<env>>

DryRunBeginOf(tx, block, forceBaseFeeZero) ==
    /\ pc = "idle"
    /\ IF impl = "ethereumjs"
       THEN \E rebuildThrows \in IF rebuildsBlock(block, forceBaseFeeZero)
                                 THEN BOOLEAN
                                 ELSE {FALSE} :
               IF rebuildThrows
               THEN \* the block context cannot be rebuilt with a zero base
                    \* fee: the finally block finds originalCommon unset
                    /\ lastCall' = Observed("dryRun", "error")
                    /\ UNCHANGED <<call, pc, vmCommon, blockEnv>>
               ELSE /\ call' = [op |-> "dryRun", tx |-> tx,
                                initialStateRoot |-> <<getStateRoot>>,
                                originalCommon |-> <<vmCommon>>,
                                pre |-> <<state>>]
                    /\ vmCommon' = customCommon(block.number)
                    /\ blockEnv' = Handed(ethereumjsDryRunEnv(block, forceBaseFeeZero))
                    /\ pc' = "running"
                    /\ lastCall' = Observed("dryRun", "pending")
       ELSE IF prevRandaoThrows(block)
            THEN /\ lastCall' = Observed("dryRun", "error")
                 /\ UNCHANGED <<call, pc, vmCommon, blockEnv>>
            ELSE /\ call' = [op |-> "dryRun", tx |-> tx, initialStateRoot |-> <<>>,
                             originalCommon |-> <<>>, pre |-> <<state>>]
                 /\ blockEnv' = Handed(rethnetDryRunEnv(block, forceBaseFeeZero))
                 /\ pc' = "running"
                 /\ lastCall' = Observed("dryRun", "pending")
                 /\ UNCHANGED vmCommon
    /\ probe' = ProbeReset
    /\ cycle' = NoCycle
    /\ UNCHANGED <<config, drawn, state, journal, blockStartStateRoot,
                   vmDebugTracer, depth, openedAt>>

DryRunBegin ==
    \E tx \in Tx, block \in Blocks : DryRunBeginOf(tx, block, FALSE)

RunTxInBlockBeginOf(tx, block) ==
    /\ pc = "idle"
    /\ IF impl = "rethnet" /\ prevRandaoThrows(block)
       THEN /\ lastCall' = Observed("runTxInBlock", "error")
            /\ probe' = ProbeReset
            /\ UNCHANGED <<call, pc, blockEnv>>
       ELSE IF CannotPay(state, tx)
            THEN \* the backend rejects the transaction
                 /\ lastCall' = Observed("runTxInBlock", "error")
                 /\ blockEnv' = Handed(runTxInBlockEnv(block))
                 /\ probe' = IF ~probe.on
                             THEN ProbeOff
                             ELSE [ProbeReset EXCEPT !.backend = "threw"]
                 /\ UNCHANGED <<call, pc>>
            ELSE /\ call' = [op |-> "runTxInBlock", tx |-> tx,
                             initialStateRoot |-> <<>>,
                             originalCommon |-> <<>>, pre |-> <<state>>]
                 /\ blockEnv' = Handed(runTxInBlockEnv(block))
                 /\ pc' = "running"
                 /\ lastCall' = Observed("runTxInBlock", "pending")
                 /\ probe' = ProbeReset
    /\ cycle' = IF cycle.phase = "started" THEN cycle ELSE NoCycle
    /\ UNCHANGED <<config, drawn, state, journal, blockStartStateRoot, vmCommon,
                   vmDebugTracer, depth, openedAt>>

RunTxInBlockBegin ==
    \E tx \in Tx, block \in Blocks : RunTxInBlockBeginOf(tx, block)

Next ==
    \/ StartBlock
    \/ SealBlock
    \/ RevertBlock
    \/ AddBlockRewards
    \/ SetDebugTracer
    \/ RemoveDebugTracer
    \/ DryRunBegin
    \/ RunTxInBlockBegin
    \/ EmitBeforeMessage
    \/ EmitStep
    \/ EmitAfterMessage
    \/ BackendReturn
    \/ BackendThrow

Spec == Init /\ [][Next]_vars

(***************************************************************************)
(* Measuring addBlockRewards: the adapter has just opened a block on a     *)
(* drawn world state and is handed a drawn reward list.                    *)
(***************************************************************************)
DrawnWorlds ==
    {s \in WorldState : \A a \in Addr : a \notin s.exists => s.balance[a] = 0}

InitRewards ==
    /\ impl \in {"ethereumjs", "rethnet"}
    /\ forked = FALSE
    /\ state \in DrawnWorlds
    /\ journal = IF impl = "rethnet" THEN checkpoint(<<>>, state) ELSE <<>>
    /\ blockStartStateRoot = IF impl = "ethereumjs" THEN <<getStateRoot>> ELSE <<>>
    /\ vmCommon = [chainId |-> ConfigChainId, networkId |-> ConfigNetworkId,
                   hardfork |-> ConfigHardfork]
    /\ vmDebugTracer = "none"
    /\ pc = "idle"
    /\ call = NoCall
    /\ depth = 0
    /\ lastCall = Observed("startBlock", "ok")
    /\ openedAt = <<state>>
    /\ cycle = [phase |-> "started", root |-> <<state>>, dirty |-> FALSE]
    /\ rewardsArg \in RewardLists
    /\ blockArg = <<>>
    /\ snapshot = <<>>
    /\ eventArg = <<>>
    /\ handled = <<>>
    /\ storeCall = <<>>
    /\ blockEnv = <<>>
    /\ probe = ProbeOff

MeasuredAddBlockRewards ==
    /\ lastCall.op = "startBlock"
    /\ AddBlockRewardsOf(rewardsArg)

NextRewards == MeasuredAddBlockRewards

SpecRewards == InitRewards /\ [][NextRewards]_vars

(***************************************************************************)
(* Observing calls: the events of each dryRun and runTxInBlock are         *)
(* recorded together with what the backend and the adapter returned.       *)
(***************************************************************************)
ProbeOn == [ProbeOff EXCEPT !.on = TRUE]

InitCalls ==
    /\ Constructed
    /\ rewardsArg = <<>>
    /\ blockArg = <<>>
    /\ snapshot = <<>>
    /\ eventArg = <<>>
    /\ handled = <<>>
    /\ storeCall = <<>>
    /\ blockEnv = <<>>
    /\ probe = ProbeOn

NextCalls ==
    \/ SetDebugTracer
    \/ RemoveDebugTracer
    \/ DryRunBegin
    \/ RunTxInBlockBegin
    \/ EmitBeforeMessage
    \/ EmitStep
    \/ EmitAfterMessage
    \/ BackendReturn
    \/ BackendThrow

SpecCalls == InitCalls /\ [][NextCalls]_vars

(***************************************************************************)
(* Block environments: dryRun and runTxInBlock applied to one drawn block  *)
(* context, recording what the backend is handed.                          *)
(***************************************************************************)
BaseFees == {Absent, <<0>>, <<7>>}

\* Difficulties on both sides of MAX_DIFFICULTY.
Difficulties ==
    {Absent, <<0, 0>>, <<0, 1>>, <<Limb - 1, Limb - 2>>, MAX_DIFFICULTY,
     <<Limb, 0>>, <<Limb, 1>>}

BlockArgs ==
    [op : {"dryRun", "runTxInBlock"},
     block : [number : BlockNumbers, mixHash : {Undefined, "h1"},
              baseFeePerGas : BaseFees, difficulty : Difficulties],
     forceBaseFeeZero : BOOLEAN]

InitEnv ==
    /\ Constructed
    /\ rewardsArg = <<>>
    /\ \E a \in BlockArgs :
          /\ a.op = "runTxInBlock" => ~a.forceBaseFeeZero
          /\ blockArg = <<a>>
    /\ snapshot = <<>>
    /\ eventArg = <<>>
    /\ handled = <<>>
    /\ storeCall = <<>>
    /\ blockEnv = <<>>
    /\ probe = ProbeOn

\* dryRun(tx, blockContext, forceBaseFeeZero) on the drawn block context.
MeasuredDryRun ==
    /\ blockArg[1].op = "dryRun"
    /\ \E tx \in Tx :
          DryRunBeginOf(tx, blockArg[1].block, blockArg[1].forceBaseFeeZero)

\* runTxInBlock(tx, block) on the drawn block.
MeasuredRunTxInBlock ==
    /\ blockArg[1].op = "runTxInBlock"
    /\ \E tx \in Tx : RunTxInBlockBeginOf(tx, blockArg[1].block)

NextEnv ==
    \/ MeasuredDryRun
    \/ MeasuredRunTxInBlock

SpecEnv == InitEnv /\ [][NextEnv]_vars

(***************************************************************************)
(* Snapshots: makeSnapshot and restoreContext among writes to the state.   *)
(***************************************************************************)
\* StateManager.setStateRoot(root): the working state becomes the one the
\* root names.
setStateRoot(root) == root

\* makeSnapshot(): the caller keeps the root returned.
MakeSnapshot ==
    /\ pc = "idle"
    /\ snapshot' = <<getStateRoot>>
    /\ lastCall' = Observed("makeSnapshot", "ok")
    /\ cycle' = NoCycle
    /\ UNCHANGED <<config, rewardsArg, blockArg, eventArg, handled, storeCall,
                   measuring, state, journal, blockStartStateRoot, vmCommon, tracing,
                   inFlight, openedAt>>

\* A restoreContext that leaves the working state where it is.
RestoreContextKeepingState ==
    /\ pc = "idle"
    /\ snapshot # <<>>
    /\ lastCall' = Observed("restoreContext", "ok")
    /\ cycle' = [phase |-> "restored", root |-> <<>>,
                 dirty |-> state # snapshot[1]]
    /\ UNCHANGED <<config, drawn, measuring, state, journal,
                   blockStartStateRoot, vmCommon, tracing, inFlight, openedAt>>

\* restoreContext(snapshot) with the root the caller kept.
RestoreContext ==
    /\ pc = "idle"
    /\ snapshot # <<>>
    /\ state' = setStateRoot(snapshot[1])
    /\ lastCall' = Observed("restoreContext", "ok")
    /\ cycle' = [phase |-> "restored", root |-> <<>>,
                 dirty |-> state # snapshot[1]]
    /\ UNCHANGED <<config, drawn, measuring, journal, blockStartStateRoot,
                   vmCommon, tracing, inFlight, openedAt>>

\* putAccount(address, account).
PutAccount ==
    /\ pc = "idle"
    /\ \E a \in Addr, b \in 0 .. MaxBalance : state' = putAccount(state, a, b)
    /\ lastCall' = Observed("putAccount", "ok")
    /\ cycle' = NoCycle
    /\ UNCHANGED <<config, drawn, measuring, journal, blockStartStateRoot,
                   vmCommon, tracing, inFlight, openedAt>>

InitSnapshot ==
    /\ Constructed
    /\ rewardsArg = <<>>
    /\ blockArg = <<>>
    /\ snapshot = <<>>
    /\ eventArg = <<>>
    /\ handled = <<>>
    /\ storeCall = <<>>
    /\ blockEnv = <<>>
    /\ probe = ProbeOff

\* The writes are putAccount, transactions run by runTxInBlock and block
\* rewards.
NextSnapshot ==
    \/ MakeSnapshot
    \/ RestoreContext
    \/ PutAccount
    \/ RunTxInBlockBegin
    \/ EmitBeforeMessage
    \/ EmitStep
    \/ EmitAfterMessage
    \/ BackendReturn
    \/ BackendThrow
    \/ AddBlockRewards

SpecSnapshot == InitSnapshot /\ [][NextSnapshot]_vars

(***************************************************************************)
(* One handler run: the handler of a drawn event applied to it, recording  *)
(* what it called and, for afterMessage, the execution result it built.    *)
(***************************************************************************)
\* EVMResult as _afterMessageHandler reads it: selfdestruct is Absent or
\* <<number of keys>>, returnValue a sequence of bytes.
EVMResults ==
    [exceptionError : EvmErrors,
     selfdestruct : {Absent, <<0>>, <<1>>},
     createdAddress : {Undefined, "a2"},
     returnValue : {<<>>, <<1>>},
     executionGasUsed : {1}]

\* A success reason that looks at the return value before the self-destructs.
successReasonReturnFirst(result) ==
    IF result.createdAddress # Undefined \/ Len(result.returnValue) > 0
    THEN "Return"
    ELSE IF result.selfdestruct # Absent /\ result.selfdestruct[1] > 0
         THEN "SelfDestruct"
         ELSE "Stop"

\* _afterMessageHandler: the reason of a message that finished without an
\* exception.
successReason(result) ==
    IF result.selfdestruct # Absent /\ result.selfdestruct[1] > 0
    THEN "SelfDestruct"
    ELSE IF result.createdAddress # Undefined \/ Len(result.returnValue) > 0
         THEN "Return"
         ELSE "Stop"

\* Exit.getRethnetExceptionalHalt: the halt code of an EVM error.
getRethnetExceptionalHalt(e) ==
    CASE e = "out of gas" -> "OutOfGas"
      [] e = "invalid opcode" -> "InvalidOpcode"
      [] OTHER -> "Unknown"

\* An execution result that gives a revert the shape of a halt.
executionResultRevertAsHalt(result) ==
    IF result.exceptionError = Undefined
    THEN [reason |-> successReason(result),
          gasUsed |-> result.executionGasUsed,
          output |-> IF result.createdAddress = Undefined
                     THEN [returnValue |-> result.returnValue]
                     ELSE [address |-> result.createdAddress,
                           returnValue |-> result.returnValue]]
    ELSE [reason |-> getRethnetExceptionalHalt(result.exceptionError),
          gasUsed |-> result.executionGasUsed]

\* _afterMessageHandler: the executionResult of the afterMessage event.
executionResult(result) ==
    IF result.exceptionError = Undefined
    THEN [reason |-> successReason(result),
          gasUsed |-> result.executionGasUsed,
          output |-> IF result.createdAddress = Undefined
                     THEN [returnValue |-> result.returnValue]
                     ELSE [address |-> result.createdAddress,
                           returnValue |-> result.returnValue]]
    ELSE IF result.exceptionError = "revert"
         THEN [gasUsed |-> result.executionGasUsed,
               output |-> result.returnValue]
         ELSE [reason |-> getRethnetExceptionalHalt(result.exceptionError),
               gasUsed |-> result.executionGasUsed]

NoResult == CHOOSE r \in EVMResults : TRUE

\* Events with what goes wrong while they are handled: "next" is a
\* continuation that raises when it is called.
EventArgs ==
    [kind : {"beforeMessage", "step"},
     fault : {"none", "code", "debugTracer", "next"},
     result : {NoResult}]
        \cup [kind : {"afterMessage"},
              fault : {"none", "debugTracer", "next"},
              result : EVMResults]

InitHandler ==
    /\ Constructed
    /\ rewardsArg = <<>>
    /\ blockArg = <<>>
    /\ snapshot = <<>>
    /\ eventArg \in {<<a>> : a \in EventArgs}
    /\ handled = <<>>
    /\ storeCall = <<>>
    /\ blockEnv = <<>>
    /\ probe = ProbeOff

\* The backend issues the drawn event and its handler runs.
RunHandler ==
    /\ handled = <<>>
    /\ LET e == eventArg[1]
       IN  /\ e.fault \in HandlerFaults(e.kind)
                             \cup (IF impl = "ethereumjs" THEN {"next"} ELSE {})
           /\ handled' =
                 <<[h |-> handler(e.kind, e.fault),
                    executionResult |->
                        IF impl = "ethereumjs" /\ e.kind = "afterMessage"
                        THEN <<executionResult(e.result)>>
                        ELSE <<>>]>>
    /\ UNCHANGED <<config, rewardsArg, blockArg, snapshot, eventArg, storeCall,
                   measuring, state, journal, blockStartStateRoot, vmCommon, tracing,
                   inFlight, lastCall, openedAt, cycle>>

NextHandler ==
    \/ SetDebugTracer
    \/ RemoveDebugTracer
    \/ RunHandler

SpecHandler == InitHandler /\ [][NextHandler]_vars

(***************************************************************************)
(* setBlockContext applied to one drawn block and irregular state.         *)
(***************************************************************************)
\* Roots of states the state manager has observed.
KnownRoots ==
    {GenesisState, putAccount(GenesisState, "a2", 1),
     putAccount(GenesisState, "a1", 0)}

ContextArgs ==
    [op : {"setBlockContext"},
     block : [number : BlockNumbers, stateRoot : KnownRoots],
     irregularState : {<<>>} \cup {<<r>> : r \in KnownRoots}]

\* A root chosen without looking at the irregular state.
rootOfBlock(block, irregularState) == block.stateRoot

\* irregularStateOrUndefined ?? block.header.stateRoot
chosenRoot(block, irregularState) ==
    IF irregularState # <<>> THEN irregularState[1] ELSE block.stateRoot

\* setBlockContext(block, irregularStateOrUndefined).
SetBlockContextOf(block, irregularState) ==
    /\ pc = "idle"
    /\ storeCall' =
          IF impl = "ethereumjs" /\ forked
          THEN \* ForkStateManager.setBlockContext(stateRoot, number, irregular)
               <<[method |-> "setBlockContext",
                  stateRoot |-> block.stateRoot,
                  blockNumber |-> <<block.number>>,
                  irregularState |-> irregularState]>>
          ELSE <<[method |-> "setStateRoot",
                  stateRoot |-> chosenRoot(block, irregularState),
                  blockNumber |-> <<>>,
                  irregularState |-> <<>>]>>
    /\ state' = setStateRoot(chosenRoot(block, irregularState))
    /\ lastCall' = Observed("setBlockContext", "ok")
    /\ cycle' = NoCycle
    /\ UNCHANGED <<config, rewardsArg, blockArg, snapshot, eventArg, handled,
                   measuring, journal, blockStartStateRoot, vmCommon, tracing,
                   inFlight, openedAt>>

InitContext ==
    /\ Constructed
    /\ rewardsArg = <<>>
    /\ blockArg \in {<<a>> : a \in ContextArgs}
    /\ snapshot = <<>>
    /\ eventArg = <<>>
    /\ handled = <<>>
    /\ storeCall = <<>>
    /\ blockEnv = <<>>
    /\ probe = ProbeOff

MeasuredSetBlockContext ==
    SetBlockContextOf(blockArg[1].block, blockArg[1].irregularState)

\* The state is written to before and after the call.
NextContext ==
    \/ PutAccount
    \/ MeasuredSetBlockContext

SpecContext == InitContext /\ [][NextContext]_vars

(***************************************************************************)
(* Building a block with calls that fail: the block lifecycle, the         *)
(* transactions run in the block and block rewards, each of which may      *)
(* raise.                                                                  *)
(***************************************************************************)
NextBlocks ==
    \/ StartBlock
    \/ SealBlock
    \/ RevertBlock
    \/ AddBlockRewards
    \/ AddBlockRewardsThrow
    \/ RunTxInBlockBegin
    \/ EmitBeforeMessage
    \/ EmitStep
    \/ EmitAfterMessage
    \/ BackendReturn
    \/ BackendThrow

SpecBlocks == Init /\ [][NextBlocks]_vars

(***************************************************************************)
(* Properties.                                                             *)
(***************************************************************************)
\* A dryRun call settles in this step: it returns or raises.
DryRunSettles == pc' = "idle" /\ lastCall'.op = "dryRun"

\* C1: getStateRoot() after dryRun completes equals its value immediately
\* before the call, both when dryRun returns a result and when it raises.
C1_DryRunKeepsStateRoot ==
    [][DryRunSettles =>
          state' = (IF pc = "idle" THEN state ELSE call.pre[1])]_vars

\* A dryRun of the interpreted adapter raised an error.
C1_Witness ==
    /\ impl = "ethereumjs"
    /\ lastCall = Observed("dryRun", "error")

\* C2: after dryRun finishes, with a result or with an error raised after the
\* chain configuration was replaced, the backend's chain configuration is the
\* one installed immediately before the call.
C2_DryRunRestoresCommon ==
    [][(impl = "ethereumjs" /\ pc # "idle" /\ call.op = "dryRun" /\ pc' = "idle")
          => vmCommon' = call.originalCommon[1]]_vars

\* The backend has run a dryRun under a replaced chain configuration.
C2_Witness ==
    /\ pc = "traced"
    /\ call.op = "dryRun"
    /\ call.originalCommon # <<>>
    /\ vmCommon # call.originalCommon[1]

\* C3: after startBlock; runTxInBlock*; addBlockRewards?; revertBlock the
\* state root equals the one observed immediately before startBlock.
C3_RevertRestoresStartRoot ==
    cycle.phase = "reverted" => state = cycle.root[1]

\* A revertBlock undid writes made since startBlock.
C3_Witness == cycle.phase = "reverted" /\ cycle.dirty

\* C4: in every reachable state the adapter holds at most one open block
\* checkpoint.
C4_AtMostOneCheckpoint == OpenCheckpoints <= 1

\* C5: startBlock while a block is open raises an error and leaves the state
\* root and the captured start root unchanged, so that a later revertBlock
\* restores the root observed before the first startBlock.
C5_DoubleStartRejected ==
    [][/\ (StartBlock /\ blockOpen) =>
             /\ lastCall'.outcome = "error"
             /\ state' = state
             /\ openedAt' = openedAt
             /\ blockStartStateRoot' = blockStartStateRoot
             /\ journal' = journal
       /\ (RevertBlock /\ blockOpen) => state' = openedAt[1]]_vars

\* C6: sealBlock with no open block raises an error and leaves the state root
\* unchanged.
C6_SealWithoutBlockRejected ==
    [][(SealBlock /\ ~blockOpen) =>
          (lastCall'.outcome = "error" /\ state' = state)]_vars

\* C7: runTxInBlock with no open block raises an error without executing the
\* transaction, so the state root is unchanged by the rejected call.
C7_RunTxWithoutBlockRejected ==
    [][/\ (RunTxInBlockBegin /\ ~blockOpen) =>
             (lastCall'.outcome = "error" /\ pc' = "idle")
       /\ (~blockOpen /\ pc # "idle" /\ call.op = "runTxInBlock" /\ pc' = "idle")
             => state' = state]_vars

\* C8: the checkpoint created by startBlock is destroyed by the next
\* successful sealBlock or revertBlock: no block checkpoint remains open
\* after either call.
C8_CheckpointDestroyed ==
    [][((SealBlock \/ RevertBlock) /\ blockOpen /\ lastCall'.outcome = "ok")
          => (blockStartStateRoot' = <<>> /\ journal' = <<>>)]_vars

RECURSIVE rewardSum(_, _)
\* Sum of the rewards listed for address a.
rewardSum(rewards, a) ==
    IF rewards = <<>>
    THEN 0
    ELSE (IF rewards[1][1] = a THEN rewards[1][2] ELSE 0)
             + rewardSum(Tail(rewards), a)

listed(rewards, a) == \E i \in 1 .. Len(rewards) : rewards[i][1] = a

\* C9: after addBlockRewards(rewards) every balance is the balance before
\* the call plus the sum of the rewards listed for the address, a listed
\* address has an account, and an address not listed is unchanged.
C9_RewardsCredited ==
    lastCall.op = "addBlockRewards" =>
        LET before == cycle.root[1]
        IN  \A a \in Addr :
               /\ getAccount(state, a) = getAccount(before, a) + rewardSum(rewardsArg, a)
               /\ listed(rewardsArg, a) => a \in state.exists
               /\ ~listed(rewardsArg, a) =>
                     /\ (a \in state.exists) = (a \in before.exists)
                     /\ state.balance[a] = before.balance[a]

\* An address without an account was listed twice and holds both rewards.
C9_Witness ==
    /\ lastCall.op = "addBlockRewards"
    /\ \E a \in Addr :
          /\ a \notin cycle.root[1].exists
          /\ a \in state.exists
          /\ getAccount(state, a) = 2

EventKinds == {"beforeMessage", "step", "afterMessage"}

\* C10: an exception raised by a subscriber while handling an event is caught
\* by the handler and passed to the continuation as a failure; the handler
\* never throws or rejects out of the stepper.
C10_SubscriberFailureForwarded ==
    pc = "running" =>
        \A kind \in EventKinds :
            \A fault \in HandlerFaults(kind) :
                LET h == handler(kind, fault)
                IN  h.subscriberThrew =>
                        (h.nextCalls = 1 /\ h.nextError /\ ~h.rejected)

\* C23: sealBlock keeps the writes of the runTxInBlock calls made in the
\* block: the state after it is the state just before it, and no lifecycle
\* call made once the block is sealed rolls the state back.
C23_SealKeepsWrites ==
    [][/\ (SealBlock /\ blockOpen) =>
             (lastCall'.outcome = "ok" /\ state' = state)
       /\ ((StartBlock \/ SealBlock \/ RevertBlock) /\ ~blockOpen) =>
             state' = state]_vars

\* C28: revertBlock with no block open raises an error and leaves the state
\* root unchanged, also directly after a successful revertBlock.
C28_RevertWithoutBlockRejected ==
    [][(RevertBlock /\ ~blockOpen) =>
          (/\ lastCall'.outcome = "error"
           /\ state' = state
           /\ journal' = journal
           /\ blockStartStateRoot' = blockStartStateRoot)]_vars

\* C27: a dryRun made while a block is open leaves the block as it was: the
\* state after it is the in-block state before it, the block's checkpoint is
\* untouched, and a revertBlock that follows restores the state observed
\* before startBlock.
C27_DryRunKeepsOpenBlock ==
    [][blockOpen =>
          /\ (lastCall'.op = "dryRun" \/ (call.op = "dryRun" /\ pc # "idle")) =>
                (/\ blockStartStateRoot' = blockStartStateRoot
                 /\ journal' = journal
                 /\ openedAt' = openedAt)
          /\ DryRunSettles =>
                state' = (IF pc = "idle" THEN state ELSE call.pre[1])
          /\ (/\ lastCall.op = "dryRun"
              /\ lastCall'.op = "revertBlock"
              /\ OpenCheckpoints = 1) =>
                (lastCall'.outcome = "ok" /\ state' = openedAt[1])]_vars

\* A dryRun returned inside an open block whose transactions had written to
\* the state.
C27_Witness ==
    /\ blockOpen
    /\ OpenCheckpoints = 1
    /\ lastCall = Observed("dryRun", "ok")
    /\ state # openedAt[1]

\* A call made inside the open block ends with an error in this step.
CallFailsInBlock ==
    /\ blockOpen
    /\ lastCall'.outcome = "error"
    /\ lastCall'.op \in {"runTxInBlock", "addBlockRewards"}
    /\ pc' = "idle"
    /\ lastCall # lastCall' \/ pc # pc' \/ state # state'

\* C24: when runTxInBlock or addBlockRewards fails after startBlock the
\* interpreted adapter's block stays open: the captured start root is kept, a
\* further startBlock is rejected, only sealBlock or revertBlock closes the
\* block, and revertBlock restores the root observed before startBlock.
C24_FailedCallKeepsBlockOpen ==
    [][impl = "ethereumjs" =>
          /\ CallFailsInBlock =>
                (/\ blockStartStateRoot' = blockStartStateRoot
                 /\ blockStartStateRoot' = openedAt
                 /\ openedAt' = openedAt)
          /\ (StartBlock /\ blockOpen) =>
                (/\ lastCall'.outcome = "error"
                 /\ blockStartStateRoot' = blockStartStateRoot)
          /\ (blockStartStateRoot # <<>> /\ blockStartStateRoot' = <<>>) =>
                (SealBlock \/ RevertBlock)
          /\ (RevertBlock /\ blockOpen) => state' = openedAt[1]]_vars

\* In an open block of the interpreted adapter a call has failed after the
\* state was written to, and the start root is still held.
C24_Witness ==
    /\ impl = "ethereumjs"
    /\ blockOpen
    /\ lastCall.outcome = "error"
    /\ lastCall.op \in {"runTxInBlock", "addBlockRewards"}
    /\ blockStartStateRoot = openedAt
    /\ state # openedAt[1]

(***************************************************************************)
(* Properties of the calls observed.                                       *)
(***************************************************************************)
\* The handler of one more event has run in this step.
EventDelivered == Len(probe'.events) = Len(probe.events) + 1

\* Position of the continuation call in what a handler did (0 = none).
nextAt(order) ==
    IF \E k \in DOMAIN order : order[k] = "next"
    THEN CHOOSE k \in DOMAIN order : order[k] = "next"
    ELSE 0

\* C11: events reach the subscribers in the order the backend issued them,
\* and the continuation for an event is invoked only after every subscribed
\* tracer has finished with it.
C11_DeliveredInOrderBeforeNext ==
    \A i \in DOMAIN probe.events :
        LET e == probe.events[i]
        IN  /\ e.seq = i
            /\ e.structural => \E k \in DOMAIN e.order : e.order[k] = "structural"
            /\ e.debug # "none" => \E k \in DOMAIN e.order : e.order[k] = "debug"
            /\ impl = "ethereumjs" => nextAt(e.order) = Len(e.order)
            /\ nextAt(e.order) # 0 =>
                  \A k \in DOMAIN e.order :
                      e.order[k] # "next" => k < nextAt(e.order)

\* The interpreted adapter delivered two events, the second one to both the
\* structural and the debug tracer.
C11_Witness ==
    /\ impl = "ethereumjs"
    /\ Len(probe.events) >= 2
    /\ probe.events[2].structural
    /\ probe.events[2].debug # "none"

\* The events the structural tracer received, in order.
RECURSIVE structuralLog(_)
structuralLog(events) ==
    IF events = <<>>
    THEN <<>>
    ELSE (IF events[1].structural THEN <<events[1]>> ELSE <<>>)
             \o structuralLog(Tail(events))

\* A sequence of events is well-bracketed when read with `open` messages open.
RECURSIVE bracketed(_, _)
bracketed(log, open) ==
    IF log = <<>>
    THEN open = 0
    ELSE LET e == log[1]
         IN  CASE e.kind = "beforeMessage" ->
                      e.depth = open + 1 /\ bracketed(Tail(log), open + 1)
               [] e.kind = "step" ->
                      open > 0 /\ e.depth = open /\ bracketed(Tail(log), open)
               [] OTHER ->
                      open > 0 /\ e.depth = open /\ bracketed(Tail(log), open - 1)

\* C12: the events delivered to the structural tracer for a transaction are
\* well-bracketed, also when a subscriber raised an error on one of them.
C12_WellBracketed ==
    (/\ pc = "idle"
     /\ \/ probe.backend \in EvmErrors
        \/ (probe.events # <<>> /\ probe.events[Len(probe.events)].threw))
        => bracketed(structuralLog(probe.events), 0)

attachedBy(calls) ==
    IF calls # <<>> /\ calls[Len(calls)] \in Tracers
    THEN calls[Len(calls)]
    ELSE "none"

\* C14: at most one debug tracer is attached: the one of the latest
\* setDebugTracer, none after removeDebugTracer; an event reaches no debug
\* tracer other than the attached one.
C14_OneDebugTracer ==
    [][/\ vmDebugTracer' = attachedBy(probe'.tracerCalls)
       /\ EventDelivered =>
             probe'.events[Len(probe'.events)].debug
                 \in {"none", attachedBy(probe.tracerCalls)}]_vars

\* setDebugTracer(t2) came after setDebugTracer(t1) and the event of the run
\* that followed went to t2.
C14_Witness ==
    /\ pc = "running"
    /\ probe.tracerCalls = <<"t1", "t2">>
    /\ probe.events # <<>>
    /\ probe.events[1].debug = "t2"

argBlock == blockArg[1].block
argLondon == HardforkRank(selectHardfork(argBlock.number)) >= HardforkRank("london")
argMerged == HardforkRank(selectHardfork(argBlock.number)) >= HardforkRank("merge")

\* C16: the base fee dryRun hands to the backend is 0 exactly when EIP-1559
\* is active for the block's hardfork and (the block has no base fee or
\* forceBaseFeeZero is set), and otherwise the block's own, on both adapters.
C16_BaseFeeZeroRule ==
    (blockArg # <<>> /\ blockArg[1].op = "dryRun" /\ blockEnv # <<>>) =>
        blockEnv[1].basefee =
            IF argLondon /\ (argBlock.baseFeePerGas = Absent
                                \/ blockArg[1].forceBaseFeeZero)
            THEN <<0>>
            ELSE argBlock.baseFeePerGas

\* C17: the interpreted dryRun executes under a chain configuration whose
\* chainId is the configured one when not forked or at / past the fork block
\* and the fork network id below it, whose networkId is the fork network id
\* when forked and the configured one otherwise, and whose hardfork is the
\* selector's for the block number.
C17_DryRunChainConfig ==
    (/\ impl = "ethereumjs"
     /\ blockArg # <<>>
     /\ blockArg[1].op = "dryRun"
     /\ pc = "running") =>
        /\ (~forked \/ argBlock.number >= ForkBlockNumber)
               => vmCommon.chainId = ConfigChainId
        /\ (forked /\ argBlock.number < ForkBlockNumber)
               => vmCommon.chainId = ForkNetworkId
        /\ forked => vmCommon.networkId = ForkNetworkId
        /\ ~forked => vmCommon.networkId = ConfigNetworkId
        /\ vmCommon.hardfork = selectHardfork(argBlock.number)

\* A forked adapter runs a dryRun on a block below the fork block.
C17_Witness ==
    /\ impl = "ethereumjs"
    /\ forked
    /\ blockArg # <<>>
    /\ argBlock.number < ForkBlockNumber
    /\ pc = "running"
    /\ vmCommon.chainId = ForkNetworkId

\* C18: the native adapter hands the backend a prevRandao equal to the
\* block's mixHash at and after the Merge and none before it; at or after
\* the Merge a block without mixHash makes the call fail before the backend
\* is invoked: nothing is handed over, no event is issued, the state stays.
C18_PrevRandaoRule ==
    [][(impl = "rethnet" /\ blockArg # <<>> /\ NextEnv) =>
          IF argMerged /\ argBlock.mixHash = Undefined
          THEN /\ lastCall'.outcome = "error"
               /\ pc' = "idle"
               /\ blockEnv' = <<>>
               /\ probe'.events = <<>>
               /\ probe'.backend = "none"
               /\ state' = state
               /\ journal' = journal
          ELSE /\ blockEnv' # <<>>
               /\ blockEnv'[1].prevrandao =
                      IF argMerged THEN argBlock.mixHash ELSE Undefined]_vars

\* The native adapter refused a post-Merge block that has no mixHash.
C18_Witness ==
    /\ impl = "rethnet"
    /\ blockArg # <<>>
    /\ argMerged
    /\ argBlock.mixHash = Undefined
    /\ lastCall.outcome = "error"
    /\ blockEnv = <<>>

\* min(d, 2^32 - 1) of a difficulty d = <<q, r>>: d is larger exactly when
\* q has reached Limb.
clamped(d) == IF d[1] >= Limb THEN <<Limb - 1, Limb - 1>> ELSE d

\* C19: the difficulty the native adapter hands to the backend is
\* min(d, 2^32 - 1) for a block difficulty d, and absent when d is absent.
C19_DifficultyClamped ==
    (impl = "rethnet" /\ blockArg # <<>> /\ blockEnv # <<>>) =>
        blockEnv[1].difficulty =
            IF argBlock.difficulty = Absent
            THEN Absent
            ELSE clamped(argBlock.difficulty)

\* A difficulty of 2^32 + 1 was handed over as 2^32 - 1.
C19_Witness ==
    /\ impl = "rethnet"
    /\ blockArg # <<>>
    /\ argBlock.difficulty = <<Limb, 1>>
    /\ blockEnv = <<[basefee |-> argBlock.baseFeePerGas,
                     difficulty |-> <<Limb - 1, Limb - 1>>,
                     prevrandao |-> Undefined]>>

\* C21: an interpreted and a native adapter given the same dryRun call agree;
\* in particular the base fee and the difficulty one adapter hands its backend
\* for a block context and forceBaseFeeZero flag are those the other hands
\* over for the same arguments.
C21_SameBlockEnvironment ==
    (blockArg # <<>> /\ blockArg[1].op = "dryRun" /\ blockEnv # <<>>) =>
        LET other == IF impl = "ethereumjs"
                     THEN rethnetDryRunEnv(argBlock, blockArg[1].forceBaseFeeZero)
                     ELSE ethereumjsDryRunEnv(argBlock, blockArg[1].forceBaseFeeZero)
        IN  /\ blockEnv[1].basefee = other.basefee
            /\ blockEnv[1].difficulty = other.difficulty

\* C22: setBlockContext(block, irregularState) moves the working state to
\* irregularState when it is given and to block.stateRoot when it is not; a
\* fork-backed store is handed the block's number with the root, any other
\* store the chosen root only.
C22_SetBlockContext ==
    (storeCall # <<>> /\ lastCall.op = "setBlockContext") =>
        LET block == blockArg[1].block
            irregular == blockArg[1].irregularState
        IN  /\ irregular # <<>> => state = irregular[1]
            /\ irregular = <<>> => state = block.stateRoot
            /\ (impl = "ethereumjs" /\ forked) =>
                  (/\ storeCall[1].method = "setBlockContext"
                   /\ storeCall[1].blockNumber = <<block.number>>
                   /\ storeCall[1].stateRoot = block.stateRoot
                   /\ storeCall[1].irregularState = irregular)
            /\ ~(impl = "ethereumjs" /\ forked) =>
                  (/\ storeCall[1].method = "setStateRoot"
                   /\ storeCall[1].blockNumber = <<>>
                   /\ storeCall[1].stateRoot = state)

\* An irregular state other than the block's root was given and the working
\* state moved to it.
C22_Witness ==
    /\ storeCall # <<>>
    /\ lastCall.op = "setBlockContext"
    /\ blockArg[1].irregularState # <<>>
    /\ blockArg[1].irregularState[1] # blockArg[1].block.stateRoot
    /\ state = blockArg[1].irregularState[1]
    /\ state # GenesisState

resultBuilt ==
    /\ impl = "ethereumjs"
    /\ handled # <<>>
    /\ eventArg[1].kind = "afterMessage"

\* C25: for a message that finished without an exception the reason in the
\* afterMessage event is SelfDestruct when the frame self-destructed an
\* account, else Return when there is a created address or a non-empty return
\* value, else Stop.
C25_SuccessReason ==
    (resultBuilt /\ eventArg[1].result.exceptionError = Undefined) =>
        LET r == eventArg[1].result
            built == handled[1].executionResult[1]
            destructed == r.selfdestruct \notin {Absent, <<0>>}
            returned == r.createdAddress # Undefined \/ r.returnValue # <<>>
        IN  /\ destructed => built.reason = "SelfDestruct"
            /\ (~destructed /\ returned) => built.reason = "Return"
            /\ (~destructed /\ ~returned) => built.reason = "Stop"

\* A frame that self-destructed an account and also returned data.
C25_Witness ==
    /\ resultBuilt
    /\ eventArg[1].result.exceptionError = Undefined
    /\ eventArg[1].result.selfdestruct = <<1>>
    /\ eventArg[1].result.returnValue # <<>>
    /\ handled[1].executionResult[1].reason = "SelfDestruct"

\* C26: the execution result of an afterMessage event has one of three
\* shapes: a success carries a reason; a revert carries the return value as
\* its output and no reason; an exceptional halt carries the halt reason and
\* no output.
C26_ResultShapes ==
    resultBuilt =>
        LET r == eventArg[1].result
            built == handled[1].executionResult[1]
        IN  /\ r.exceptionError = Undefined =>
                  (/\ "reason" \in DOMAIN built
                   /\ built.reason \in {"Stop", "Return", "SelfDestruct"})
            /\ r.exceptionError = "revert" =>
                  (/\ DOMAIN built = {"gasUsed", "output"}
                   /\ built.output = r.returnValue)
            /\ r.exceptionError \notin {Undefined, "revert"} =>
                  (/\ DOMAIN built = {"reason", "gasUsed"}
                   /\ built.reason \notin {"Stop", "Return", "SelfDestruct"})

\* A revert with return data was given its result.
C26_Witness ==
    /\ resultBuilt
    /\ eventArg[1].result.exceptionError = "revert"
    /\ eventArg[1].result.returnValue = <<1>>
    /\ handled[1].executionResult[1].output = <<1>>

\* C29: for every event the interpreted adapter's handler calls the
\* continuation exactly once: without an error when the subscribers succeed,
\* with the error when one throws, and not again when the continuation
\* itself raises.
C29_NextCalledOnce ==
    (impl = "ethereumjs" /\ handled # <<>>) =>
        /\ handled[1].h.nextCalls = 1
        /\ handled[1].h.subscriberThrew => handled[1].h.nextError
        /\ eventArg[1].fault = "none" => ~handled[1].h.nextError

====
